---- MODULE Spec2Model ----
(***************************************************************************)
(* Model of the windowed time-series feature pipeline of ivis-core:        *)
(*   examples/NN_forecasting/ivis_nn/ivis_nn/preprocessing.py              *)
(*     split_data, one_hot_encoding, preprocess_dataframes,                *)
(*     preprocess_using_coefficients, WindowGenerator, make_datasets       *)
(*   server/lib/tasks/python/ivis/ivis/nn/prediction.py                    *)
(*     get_column_indices, _postprocess_sample, postprocess                *)
(*   server/lib/tasks/python/ivis/ivis/nn/optimizer.py                     *)
(*     prepare_signal_parameters                                           *)
(*                                                                         *)
(* A DataFrame is a record [cols, rows]: cols is the ordered sequence of   *)
(* column names, rows the sequence of rows, each a function from column    *)
(* name to cell.  A cell is a number (record n/d, see Rat) or a string     *)
(* cell [s |-> "..."].  Column names are strings and the f-strings of the  *)
(* source are string concatenations.                                       *)
(***************************************************************************)
EXTENDS Integers, Sequences, FiniteSets, TLC

VARIABLES
    pc,                  \* position of the modelled run
    dataframe,           \* split_data: the table to split
    split,               \* split_data: training_parameters["split"]
    splits,              \* split_data: the returned triple
    training_parameters, \* preprocess_dataframes: input_schema, target_schema
    train_df,            \* preprocess_dataframes: raw training split
    val_df,              \* preprocess_dataframes: raw validation split
    test_df,             \* preprocess_dataframes: raw test split
    fitted,              \* preprocess_dataframes: the returned tuple
    applied,             \* preprocess_using_coefficients: returned tables
    window_columns,      \* WindowGenerator: the (input, target) column names
    window,              \* WindowGenerator object
    frame,               \* table handed to make_dataset
    dataset,             \* value returned by make_dataset
    codec,               \* round trip: column kind and coefficients
    raw,                 \* round trip: raw single-column table
    encoded,             \* round trip: table after preprocess_using_coefficients
    decoded,             \* round trip: result of _postprocess_sample
    prediction_parameters, \* postprocess: target_signals, normalization_coefficients
    persisted,           \* postprocess: the coefficients as persisted after training
    predicted,           \* postprocess: the batch of predicted samples
    predictions,         \* postprocess: what the last call returned or raised
    calls,               \* postprocess: number of calls made
    signals,             \* prepare_signal_parameters: the signals list (modified in place)
    declared,            \* prepare_signal_parameters: the signals list on entry
    entities_signals,    \* prepare_signal_parameters: entity of each signal cid
    aggregated,          \* prepare_signal_parameters: whether aggregation is requested
    prepared             \* prepare_signal_parameters: outcome of the call

vars == <<pc, dataframe, split, splits, training_parameters, train_df, val_df,
          test_df, fitted, applied, window_columns, window, frame, dataset, codec,
          raw, encoded, decoded, prediction_parameters, persisted, predicted,
          predictions, calls, signals, declared, entities_signals, aggregated,
          prepared>>

splitVars == <<dataframe, split, splits>>
fitVars == <<training_parameters, train_df, val_df, test_df, fitted, applied>>
windowVars == <<window_columns, window, frame, dataset>>
roundVars == <<codec, raw, encoded, decoded>>
postVars == <<prediction_parameters, persisted, predicted, predictions, calls>>
signalVars == <<signals, declared, entities_signals, aggregated, prepared>>

\* value of a variable that the running specification does not use
Idle == "idle"

IdleSplit == dataframe = Idle /\ split = Idle /\ splits = Idle
IdleFit ==
    /\ training_parameters = Idle /\ train_df = Idle /\ val_df = Idle
    /\ test_df = Idle /\ fitted = Idle /\ applied = Idle
IdleWindow == window_columns = Idle /\ window = Idle /\ frame = Idle /\ dataset = Idle
IdleRound == codec = Idle /\ raw = Idle /\ encoded = Idle /\ decoded = Idle
IdlePost ==
    /\ prediction_parameters = Idle /\ persisted = Idle /\ predicted = Idle
    /\ predictions = Idle /\ calls = Idle
IdleSignals ==
    /\ signals = Idle /\ declared = Idle /\ entities_signals = Idle
    /\ aggregated = Idle /\ prepared = Idle

(***************************************************************************)
(* Bounds of the model.                                                    *)
(***************************************************************************)
MaxSplitRows == 6    \* split_data: tables of 0..MaxSplitRows rows
SplitDen == 4        \* split fractions are k/SplitDen
MaxWindowRows == 6   \* WindowGenerator: tables of 0..MaxWindowRows rows
MaxInputWidth == 3   \* input_width in 1..MaxInputWidth
MaxTargetWidth == 2  \* target_width in 1..MaxTargetWidth
MaxOffset == 1       \* offset in 0..MaxOffset
SmallBatch == 2      \* a batch_size smaller than the number of windows
MaxFitRows == 2      \* preprocess_dataframes: rows of train, val and test together
MaxSampleRows == 2   \* _postprocess_sample: time steps of a sample
MaxLevels == 2       \* length of a stored categorical value list

(***************************************************************************)
(* Numbers.  Python floats are modelled by exact values (n/d)*sqrt(rn/rd)^e *)
(* with e in {-1,0,1}; d = 0 encodes NaN (n = 0) and +-inf (n = +-1).       *)
(* The surd part only arises from Series.std().                            *)
(***************************************************************************)
Abs(x) == IF x < 0 THEN -x ELSE x

RECURSIVE GCD(_, _)
GCD(a, b) == IF b = 0 THEN a ELSE GCD(b, a % b)

NaN == [n |-> 0, d |-> 0, rn |-> 1, rd |-> 1, e |-> 0]
Inf(sign) == [n |-> sign, d |-> 0, rn |-> 1, rd |-> 1, e |-> 0]

Rat(n, d) ==
    IF d = 0 THEN (IF n = 0 THEN NaN ELSE Inf(IF n > 0 THEN 1 ELSE -1))
    ELSE LET g == GCD(Abs(n), Abs(d))
             s == IF d < 0 THEN -1 ELSE 1
         IN [n |-> (s * n) \div g, d |-> (s * d) \div g, rn |-> 1, rd |-> 1, e |-> 0]

Num(k) == Rat(k, 1)

IsNaN(x) == x.d = 0 /\ x.n = 0
IsFinite(x) == x.d # 0
IsRat(x) == x.d # 0 /\ x.e = 0

Add(x, y) ==
    CASE IsNaN(x) \/ IsNaN(y) -> NaN
      [] IsRat(x) /\ IsRat(y) -> Rat(x.n * y.d + y.n * x.d, x.d * y.d)
      [] ~IsFinite(x) /\ IsFinite(y) -> x
      [] IsFinite(x) /\ ~IsFinite(y) -> y
      [] ~IsFinite(x) /\ ~IsFinite(y) -> IF x.n = y.n THEN x ELSE NaN

Neg(x) == [x EXCEPT !.n = -x.n]

Sub(x, y) == Add(x, Neg(y))

\* x * y; a surd factor is only multiplied with its own inverse power
Mul(x, y) ==
    CASE IsNaN(x) \/ IsNaN(y) -> NaN
      [] IsRat(x) /\ IsRat(y) -> Rat(x.n * y.n, x.d * y.d)
      [] ~IsFinite(x) \/ ~IsFinite(y) ->
            IF x.n = 0 \/ y.n = 0 THEN NaN
            ELSE Inf(IF (x.n > 0) = (y.n > 0) THEN 1 ELSE -1)
      [] x.n = 0 \/ y.n = 0 -> Num(0)
      [] x.e + y.e = 0 /\ x.rn = y.rn /\ x.rd = y.rd -> Rat(x.n * y.n, x.d * y.d)
      [] IsRat(x) -> [y EXCEPT !.n = Rat(x.n * y.n, x.d * y.d).n,
                               !.d = Rat(x.n * y.n, x.d * y.d).d]
      [] IsRat(y) -> [x EXCEPT !.n = Rat(x.n * y.n, x.d * y.d).n,
                               !.d = Rat(x.n * y.n, x.d * y.d).d]

\* 1 / y for a finite y # 0
Inv(y) == [n |-> (IF y.n < 0 THEN -y.d ELSE y.d), d |-> Abs(y.n),
           rn |-> y.rn, rd |-> y.rd, e |-> -y.e]

Div(x, y) ==
    CASE IsNaN(x) \/ IsNaN(y) -> NaN
      [] ~IsFinite(y) -> IF IsFinite(x) THEN Num(0) ELSE NaN
      [] y.n = 0 -> IF ~IsFinite(x) THEN x
                    ELSE IF x.n = 0 THEN NaN
                    ELSE Inf(IF x.n > 0 THEN 1 ELSE -1)
      [] OTHER -> Mul(x, Inv(y))

Less(x, y) == x.n * y.d < y.n * x.d     \* for rationals

IsSquare(k) == \E r \in 0..k : r * r = k
Root(k) == CHOOSE r \in 0..k : r * r = k

\* sqrt of a rational q >= 0
Sqrt(q) ==
    IF IsSquare(q.n) /\ IsSquare(q.d) THEN Rat(Root(q.n), Root(q.d))
    ELSE [n |-> 1, d |-> 1, rn |-> q.n, rd |-> q.d, e |-> 1]

RECURSIVE SumSeq(_)
SumSeq(s) == IF s = <<>> THEN Num(0) ELSE Add(Head(s), SumSeq(Tail(s)))

(***************************************************************************)
(* DataFrame helpers (pandas operations the source uses).                  *)
(***************************************************************************)
Str(s) == [s |-> s]

DataFrame(cols, rows) == [cols |-> cols, rows |-> rows]

shape0(df) == Len(df.rows)

Range(s) == {s[i] : i \in DOMAIN s}

IndexOf(s, x) == CHOOSE i \in DOMAIN s : s[i] = x

\* Python slice seq[lo:hi] on a sequence of rows (0-based, end exclusive,
\* both ends clamped to the length); lo, hi >= 0 here
Slice(s, lo, hi) ==
    LET l == IF lo > Len(s) THEN Len(s) ELSE lo
        h == IF hi > Len(s) THEN Len(s) ELSE hi
    IN IF h <= l THEN <<>> ELSE SubSeq(s, l + 1, h)

\* dataframe.iloc[lo:hi, :]
iloc(df, lo, hi) == DataFrame(df.cols, Slice(df.rows, lo, hi))

\* dataframe[column] as a sequence of cells
Column(df, column) == [i \in DOMAIN df.rows |-> df.rows[i][column]]

(***************************************************************************)
(* split_data                                                              *)
(***************************************************************************)
\* int(np.floor(n * fraction)) for the fraction k/SplitDen
FloorMul(n, k) == (n * k) \div SplitDen

split_data_val_from_zero(sp, df) ==
    LET n == shape0(df)
        train_size == FloorMul(n, sp.train)
        val_size == FloorMul(n, sp.val)
    IN <<iloc(df, 0, train_size),
         iloc(df, 0, train_size + val_size),
         iloc(df, train_size + val_size, n)>>

split_data(sp, df) ==
    LET n == shape0(df)
        train_size == FloorMul(n, sp.train)
        val_size == FloorMul(n, sp.val)
    IN <<iloc(df, 0, train_size),
         iloc(df, train_size, train_size + val_size),
         iloc(df, train_size + val_size, n)>>

\* a time-ordered table of n rows: row i carries the time stamp i
TimeTable(n) == DataFrame(<<"ts">>, [i \in 1..n |-> [c \in {"ts"} |-> Num(i)]])

\* fractions train, val, test >= 0 with train + val + test = 1
SplitSet == {[train |-> a, val |-> b, test |-> SplitDen - a - b] :
                <<a, b>> \in {p \in (0..SplitDen) \X (0..SplitDen) : p[1] + p[2] <= SplitDen}}

InitSplit ==
    /\ pc = "split"
    /\ \E n \in 0..MaxSplitRows : dataframe = TimeTable(n)
    /\ split \in SplitSet
    /\ splits = Idle
    /\ IdleFit /\ IdleWindow /\ IdleRound /\ IdlePost /\ IdleSignals

SplitData ==
    /\ pc = "split"
    /\ splits' = split_data(split, dataframe)
    /\ pc' = "split_done"
    /\ UNCHANGED <<dataframe, split, fitVars, windowVars, roundVars, postVars, signalVars>>

NextSplit == SplitData

SpecSplit == InitSplit /\ [][NextSplit]_vars

\* C1: split_data returns the row ranges [0, train_size),
\* [train_size, train_size + val_size) and [train_size + val_size, n) with
\* train_size = floor(n * train) and val_size = floor(n * val); the three
\* tables are contiguous, non-overlapping, in the original row order, and
\* their sizes sum to n.
C1_SplitRanges ==
    pc = "split_done" =>
        LET n == Len(dataframe.rows)
            ts == (n * split.train) \div SplitDen
            vs == (n * split.val) \div SplitDen
            tr == splits[1].rows
            va == splits[2].rows
            te == splits[3].rows
        IN /\ Len(tr) = ts
           /\ Len(va) = vs
           /\ Len(tr) + Len(va) + Len(te) = n
           /\ \A i \in 1..Len(tr) : tr[i] = dataframe.rows[i]
           /\ \A i \in 1..Len(va) : va[i] = dataframe.rows[ts + i]
           /\ \A i \in 1..Len(te) : te[i] = dataframe.rows[ts + vs + i]
           /\ tr \o va \o te = dataframe.rows
           /\ \A k \in 1..3 : splits[k].cols = dataframe.cols

\* C1 witness: a split with three non-empty parts where flooring loses rows
\* to the test split
C1_Witness ==
    /\ pc = "split_done"
    /\ Len(splits[1].rows) > 0
    /\ Len(splits[2].rows) > 0
    /\ Len(splits[3].rows) > 0
    /\ (Len(dataframe.rows) * split.train) % SplitDen # 0
    /\ Len(splits[3].rows) * SplitDen > Len(dataframe.rows) * split.test


(***************************************************************************)
(* WindowGenerator                                                         *)
(***************************************************************************)
DefaultBatchSize == 32

Min2(a, b) == IF a < b THEN a ELSE b

\* {name: i for i, name in enumerate(columns)}: 0-based, the last index wins
EnumerateIndices(columns) ==
    [name \in Range(columns) |->
        (CHOOSE i \in DOMAIN columns :
            columns[i] = name /\ \A j \in DOMAIN columns : columns[j] = name => j <= i) - 1]

\* WindowGenerator.__init__ keeping an empty target column list empty
WindowGenerator_no_default(columns, df, input_width, target_width, offset, batch_size, shuffle) ==
    LET column_indices == EnumerateIndices(df.cols)
        input_column_names == columns[1]
        target_column_names == columns[2]
        target_start == input_width + offset
    IN [input_width |-> input_width,
        target_width |-> target_width,
        offset |-> offset,
        dataframe |-> df,
        column_indices |-> column_indices,
        input_columns |-> [i \in DOMAIN input_column_names |->
                              column_indices[input_column_names[i]]],
        target_columns |-> [i \in DOMAIN target_column_names |->
                              column_indices[target_column_names[i]]],
        width |-> input_width + offset + target_width,
        input_slice |-> <<0, input_width>>,
        target_start |-> target_start,
        target_slice |-> <<target_start, target_start + target_width>>,
        batch_size |-> batch_size,
        shuffle |-> shuffle]

\* WindowGenerator.__init__
WindowGenerator(columns, df, input_width, target_width, offset, batch_size, shuffle) ==
    LET column_indices == EnumerateIndices(df.cols)
        input_column_names == columns[1]
        target_column_names ==
            IF columns[2] = <<>> THEN input_column_names ELSE columns[2]
        target_start == input_width + offset
    IN [input_width |-> input_width,
        target_width |-> target_width,
        offset |-> offset,
        dataframe |-> df,
        column_indices |-> column_indices,
        input_columns |-> [i \in DOMAIN input_column_names |->
                              column_indices[input_column_names[i]]],
        target_columns |-> [i \in DOMAIN target_column_names |->
                              column_indices[target_column_names[i]]],
        width |-> input_width + offset + target_width,
        input_slice |-> <<0, input_width>>,
        target_start |-> target_start,
        target_slice |-> <<target_start, target_start + target_width>>,
        batch_size |-> batch_size,
        shuffle |-> shuffle]

\* np.array(dataframe, dtype=np.float32): the rows as tuples in column
\* order (the cast is exact on the small integers the model draws)
np_array(df) == [i \in DOMAIN df.rows |-> [j \in DOMAIN df.cols |-> df.rows[i][df.cols[j]]]]

\* tf.gather(x, indices, axis=2) on one window: select features by index
gather(w, indices) == [t \in DOMAIN w |-> [k \in DOMAIN indices |-> w[t][indices[k] + 1]]]

\* split_window with the target taken right after the input (offset ignored)
split_window_no_offset(self, batch) ==
    [inputs |-> [b \in DOMAIN batch |->
                    gather(Slice(batch[b], self.input_slice[1], self.input_slice[2]),
                           self.input_columns)],
     targets |-> [b \in DOMAIN batch |->
                    gather(Slice(batch[b], self.input_width,
                                 self.input_width + self.target_width),
                           self.target_columns)]]

\* WindowGenerator.split_window on one batch of windows
split_window(self, batch) ==
    [inputs |-> [b \in DOMAIN batch |->
                    gather(Slice(batch[b], self.input_slice[1], self.input_slice[2]),
                           self.input_columns)],
     targets |-> [b \in DOMAIN batch |->
                    gather(Slice(batch[b], self.target_slice[1], self.target_slice[2]),
                           self.target_columns)]]

\* one window too few
NumSeqs_drop_last(rows, sequence_length) ==
    IF rows - sequence_length > 0 THEN rows - sequence_length ELSE 0

\* number of sequences of timeseries_dataset_from_array, stride 1
NumSeqs(rows, sequence_length) ==
    IF rows - sequence_length + 1 > 0 THEN rows - sequence_length + 1 ELSE 0

\* the orders in which the start positions can be visited
StartOrders(num_seqs, shuffle) ==
    IF shuffle THEN Permutations(1..num_seqs) ELSE {[i \in 1..num_seqs |-> i]}

\* tf.keras.preprocessing.timeseries_dataset_from_array(data, None,
\* sequence_length, sequence_stride=1, shuffle, batch_size): the batches of
\* windows, the start positions visited in the given order
timeseries_dataset_from_array(data, sequence_length, order, batch_size) ==
    LET num_seqs == NumSeqs(Len(data), sequence_length)
        num_batches == (num_seqs + batch_size - 1) \div batch_size
        seq(k) == SubSeq(data, order[k], order[k] + sequence_length - 1)
    IN [b \in 1..num_batches |->
           [k \in 1..Min2(batch_size, num_seqs - (b - 1) * batch_size) |->
               seq((b - 1) * batch_size + k)]]

\* WindowGenerator.make_dataset; order is the shuffle's outcome
make_dataset(self, df, order) ==
    IF df.cols # self.dataframe.cols THEN [kind |-> "AssertionError"]
    ELSE IF df.rows = <<>> THEN [kind |-> "None"]
    ELSE LET data == np_array(df)
             ds == timeseries_dataset_from_array(data, self.width, order, self.batch_size)
         IN [kind |-> "Dataset",
             batches |-> [b \in DOMAIN ds |-> split_window(self, ds[b])]]

\* the orders make_dataset can draw for a table
Orders(self, df) == StartOrders(NumSeqs(Len(df.rows), self.width), self.shuffle)

\* a table with columns a, b whose cell in row i, column j is 10*i + j
WindowTable(n) ==
    DataFrame(<<"a", "b">>,
              [i \in 1..n |-> [c \in {"a", "b"} |-> Num(10 * i + (IF c = "a" THEN 1 ELSE 2))]])

WindowColumnsSet == {<<"a">>, <<"a", "b">>} \X {<<>>, <<"b">>}

InitWindow ==
    /\ pc = "window"
    /\ \E n \in 0..MaxWindowRows, sp \in SplitSet :
          frame = split_data(sp, WindowTable(n))
    /\ window_columns \in WindowColumnsSet
    /\ \E iw \in 1..MaxInputWidth, tw \in 1..MaxTargetWidth, off \in 0..MaxOffset,
          bs \in {SmallBatch, DefaultBatchSize}, sh \in BOOLEAN :
          window = WindowGenerator(window_columns, frame[1], iw, tw, off, bs, sh)
    /\ dataset = Idle
    /\ IdleSplit /\ IdleFit /\ IdleRound /\ IdlePost /\ IdleSignals

\* make_datasets: the generator built on train_df (InitWindow) makes one
\* dataset for each of train_df, val_df and test_df
MakeDatasets ==
    /\ pc = "window"
    /\ \E o1 \in Orders(window, frame[1]), o2 \in Orders(window, frame[2]),
          o3 \in Orders(window, frame[3]) :
          dataset' = <<make_dataset(window, frame[1], o1),
                       make_dataset(window, frame[2], o2),
                       make_dataset(window, frame[3], o3)>>
    /\ pc' = "window_done"
    /\ UNCHANGED <<window_columns, window, frame, splitVars, fitVars, roundVars, postVars,
                   signalVars>>

NextWindow == MakeDatasets

SpecWindow == InitWindow /\ [][NextWindow]_vars

\* the windows of a dataset in iteration order, batches flattened
RECURSIVE Flatten(_)
Flatten(batches) ==
    IF batches = <<>> THEN <<>>
    ELSE LET b == Head(batches)
         IN [k \in DOMAIN b.inputs |-> [inputs |-> b.inputs[k], targets |-> b.targets[k]]]
            \o Flatten(Tail(batches))

\* window i (0-based) as the claim describes it, from the table's rows
ExpectedWindow(self, df, i) ==
    LET first == self.input_width + self.offset
        iw == self.input_width
        tw == self.target_width
    IN [inputs |-> [t \in 1..iw |->
                      [k \in DOMAIN self.input_columns |->
                          df.rows[i + t][df.cols[self.input_columns[k] + 1]]]],
        targets |-> [t \in 1..tw |->
                      [k \in DOMAIN self.target_columns |->
                          df.rows[i + first + t][df.cols[self.target_columns[k] + 1]]]]]

WindowsAsClaimed(self, df, ds) ==
    LET r == Len(df.rows)
        width == self.input_width + self.offset + self.target_width
        count == IF r - width + 1 > 0 THEN r - width + 1 ELSE 0
        ws == Flatten(ds.batches)
    IN /\ ds.kind = "Dataset"
       /\ Len(ws) = count
       /\ \A b \in DOMAIN ds.batches :
             /\ Len(ds.batches[b].inputs) >= 1
             /\ Len(ds.batches[b].inputs) <= self.batch_size
       /\ IF self.shuffle
          THEN \A i \in 0..(count - 1) :
                  Cardinality({k \in DOMAIN ws : ws[k] = ExpectedWindow(self, df, i)}) = 1
          ELSE \A i \in 0..(count - 1) : ws[i + 1] = ExpectedWindow(self, df, i)

IsC9Case(s) ==
    /\ window.input_width = 3 /\ window.target_width = 1 /\ window.offset = 0
    /\ Len(frame[s].rows) = 6

\* C9 as stated: input_width=3, target_width=1, offset=0 on a 6-row table
\* gives exactly 2 windows, window 0 with input rows[0:3] and target row[3],
\* window 1 the same shifted by one row.
C9_TwoWindows ==
    pc = "window_done" =>
        \A s \in 1..3 :
            (IsC9Case(s) /\ ~window.shuffle) =>
                LET ws == Flatten(dataset[s].batches)
                IN /\ Len(ws) = 2
                   /\ \A i \in 0..1 : ws[i + 1] = ExpectedWindow(window, frame[s], i)

\* C9 amended: the same configuration gives exactly 3 windows (6 - 4 + 1),
\* window 0 with input rows[0:3] and target row[3], each further window the
\* same shifted by one row.
C9_ThreeWindows ==
    pc = "window_done" =>
        \A s \in 1..3 :
            IsC9Case(s) =>
                LET ws == Flatten(dataset[s].batches)
                    rows == np_array(frame[s])
                    want(i) == [inputs |-> gather(SubSeq(rows, i + 1, i + 3), window.input_columns),
                                targets |-> gather(SubSeq(rows, i + 4, i + 4), window.target_columns)]
                IN /\ Len(ws) = 3
                   /\ window.shuffle => {ws[k] : k \in 1..3} = {want(i) : i \in 0..2}
                   /\ ~window.shuffle => \A i \in 0..2 : ws[i + 1] = want(i)

\* C9 witness: the 6-row table with input_width=3, target_width=1, offset=0
C9_Witness ==
    /\ pc = "window_done"
    /\ IsC9Case(1)
    /\ ~window.shuffle
    /\ dataset[1].kind = "Dataset"

\* C10 as stated: for a table with zero rows make_dataset (each of the three
\* results of make_datasets) is a dataset that yields zero windows.
C10_EmptyDataset ==
    pc = "window_done" =>
        \A s \in 1..3 :
            frame[s].rows = <<>> =>
                /\ dataset[s].kind = "Dataset"
                /\ Flatten(dataset[s].batches) = <<>>

\* window i (0-based) of an autoregressive generator: the target rows carry
\* the features named by the input column names, in their order
AutoregressiveWindow(self, df, names, i) ==
    LET first == self.input_width + self.offset
    IN [inputs |-> [t \in 1..self.input_width |->
                      [k \in DOMAIN names |-> df.rows[i + t][names[k]]]],
        targets |-> [t \in 1..self.target_width |->
                      [k \in DOMAIN names |-> df.rows[i + first + t][names[k]]]]]

\* C17: when the target column list given to WindowGenerator is empty, the
\* target column indices equal the input column indices, and every window's
\* target tensor has the same features, in the same order, as its input
\* tensor.
C17_AutoregressiveDefault ==
    (pc \in {"window", "window_done"} /\ window_columns[2] = <<>>) =>
        /\ window.target_columns = window.input_columns
        /\ pc = "window_done" =>
              \A s \in 1..3 :
                 dataset[s].kind = "Dataset" =>
                    LET ws == Flatten(dataset[s].batches)
                        count == Len(frame[s].rows) - window.width + 1
                    IN \A k \in DOMAIN ws :
                          \E i \in 0..(count - 1) :
                             ws[k] = AutoregressiveWindow(window, frame[s],
                                                          window_columns[1], i)

\* C17 witness: an autoregressive generator over two input columns that has
\* produced at least two windows
C17_Witness ==
    /\ pc = "window_done"
    /\ window_columns = <<<<"a", "b">>, <<>>>>
    /\ dataset[1].kind = "Dataset"
    /\ Len(Flatten(dataset[1].batches)) >= 2


(***************************************************************************)
(* Feature codec: pandas helpers                                           *)
(***************************************************************************)
\* dataframe[name] = cells: an existing column is overwritten in place, a
\* new one is appended
SetColumn(df, name, cells) ==
    LET cols == IF name \in Range(df.cols) THEN df.cols ELSE Append(df.cols, name)
    IN DataFrame(cols,
                 [i \in DOMAIN df.rows |->
                     [c \in Range(cols) |-> IF c = name THEN cells[i] ELSE df.rows[i][c]]])

\* dataframe.drop(columns=[name], inplace=True)
DropColumn(df, name) ==
    DataFrame(SelectSeq(df.cols, LAMBDA c : c # name),
              [i \in DOMAIN df.rows |-> [c \in Range(df.cols) \ {name} |-> df.rows[i][c]]])

\* Series.unique(): the distinct values in first-seen order
RECURSIVE unique(_)
unique(cells) ==
    IF cells = <<>> THEN <<>>
    ELSE LET init == unique(SubSeq(cells, 1, Len(cells) - 1))
             last == cells[Len(cells)]
         IN IF last \in Range(init) THEN init ELSE Append(init, last)

\* Series.mean(): NaN for an empty column
Mean(cells) == Div(SumSeq(cells), Num(Len(cells)))

\* Series.std(): sample standard deviation (ddof=1), NaN below two rows
Std(cells) ==
    IF Len(cells) < 2 THEN NaN
    ELSE LET mean == Mean(cells)
             sq == [i \in DOMAIN cells |-> Mul(Sub(cells[i], mean), Sub(cells[i], mean))]
         IN Sqrt(Div(SumSeq(sq), Num(Len(cells) - 1)))

\* Series.min() / Series.max(): NaN for an empty column
MinOf(cells) ==
    IF cells = <<>> THEN NaN
    ELSE CHOOSE x \in Range(cells) : \A y \in Range(cells) : ~Less(y, x)

MaxOf(cells) ==
    IF cells = <<>> THEN NaN
    ELSE CHOOSE x \in Range(cells) : \A y \in Range(cells) : ~Less(x, y)

\* f"{column}_{val}" for a string value
ColumnName(column, val) == column \o "_" \o val

\* a cell is a string
IsStr(val) == "s" \in DOMAIN val

\* a boolean cell
Bool(b) == [b |-> b]

\* the decimal digits of a small natural number
Digits(n) == IF n < 10 THEN <<"0", "1", "2", "3", "4", "5", "6", "7", "8", "9">>[n + 1]
             ELSE "9+"

\* the text an f-string puts for a value: the string itself, True / False,
\* the digits of an integer
format(val) ==
    IF IsStr(val) THEN val.s
    ELSE IF "b" \in DOMAIN val THEN (IF val.b THEN "True" ELSE "False")
    ELSE Digits(val.n)

\* .astype(int) of a boolean
AsInt(b) == IF b THEN Num(1) ELSE Num(0)

(***************************************************************************)
(* one_hot_encoding                                                        *)
(***************************************************************************)
RECURSIVE OneHotValues(_, _, _)
\* for val in values: dataframe[f"{column}_{val}"] = (dataframe[column] == val).astype(int)
OneHotValues(df, column, values) ==
    IF values = <<>> THEN df
    ELSE LET val == Head(values)
             cells == [i \in DOMAIN df.rows |-> AsInt(df.rows[i][column] = val)]
         IN OneHotValues(SetColumn(df, ColumnName(column, format(val)), cells), column, Tail(values))

one_hot_encoding(df, column, values) ==
    LET with_values == OneHotValues(df, column, values)
        unknown == [i \in DOMAIN df.rows |-> AsInt(~(df.rows[i][column] \in Range(values)))]
    IN DropColumn(SetColumn(with_values, ColumnName(column, "unknown"), unknown), column)

(***************************************************************************)
(* preprocess_dataframes                                                   *)
(***************************************************************************)
\* a dict as the sequence of its keys and the function from key to value
Dict(keys, items) == [keys |-> keys, items |-> items]

In(key, dict) == key \in Range(dict.keys)

\* common.get_merged_schema: the input schema followed by the columns that
\* are only in the target schema
get_merged_schema(params) ==
    LET only_target == SelectSeq(params.target_schema.keys,
                                 LAMBDA c : ~In(c, params.input_schema))
    IN Dict(params.input_schema.keys \o only_target,
            [c \in Range(params.input_schema.keys) \cup Range(only_target) |->
                IF In(c, params.input_schema) THEN params.input_schema.items[c]
                ELSE params.target_schema.items[c]])

\* dict[key] = value
Put(coeffs, key, value) == [c \in DOMAIN coeffs \cup {key} |-> IF c = key THEN value ELSE coeffs[c]]

RECURSIVE CopyLoop(_, _, _)
\* for column in new_columns: if column in input_schema: ...; if column in target_schema: ...
CopyLoop(st, params, new_columns) ==
    IF new_columns = <<>> THEN st
    ELSE LET column == Head(new_columns)
             ic == IF In(column, params.input_schema)
                   THEN Append(st.input_columns, column) ELSE st.input_columns
             tc == IF In(column, params.target_schema)
                   THEN Append(st.target_columns, column) ELSE st.target_columns
         IN CopyLoop([st EXCEPT !.input_columns = ic, !.target_columns = tc],
                     params, Tail(new_columns))

copy_column_from_schema(st, params, original_column, new_columns) ==
    CopyLoop(st, params, new_columns)

\* train, val and test all get the same column-wise map
MapColumn(df, column, F(_)) ==
    SetColumn(df, column, [i \in DOMAIN df.rows |-> F(df.rows[i][column])])

\* mean and std taken over train and val together
mean_std_normalization_leaky(st, params, column) ==
    LET mean == Mean(Column(st.train, column) \o Column(st.val, column))
        std == Std(Column(st.train, column) \o Column(st.val, column))
        F(x) == Div(Sub(x, mean), std)
    IN copy_column_from_schema(
          [st EXCEPT !.train = MapColumn(st.train, column, F),
                     !.val = MapColumn(st.val, column, F),
                     !.test = MapColumn(st.test, column, F),
                     !.coeffs = Put(st.coeffs, column, [mean |-> mean, std |-> std])],
          params, column, <<column>>)

mean_std_normalization(st, params, column) ==
    LET mean == Mean(Column(st.train, column))
        std == Std(Column(st.train, column))
        F(x) == Div(Sub(x, mean), std)
    IN copy_column_from_schema(
          [st EXCEPT !.train = MapColumn(st.train, column, F),
                     !.val = MapColumn(st.val, column, F),
                     !.test = MapColumn(st.test, column, F),
                     !.coeffs = Put(st.coeffs, column, [mean |-> mean, std |-> std])],
          params, column, <<column>>)

min_max_normalization(st, params, column, properties) ==
    LET min_val == IF "min" \in DOMAIN properties THEN properties["min"]
                   ELSE MinOf(Column(st.train, column))
        max_val == IF "max" \in DOMAIN properties THEN properties["max"]
                   ELSE MaxOf(Column(st.train, column))
        F(x) == Div(Sub(x, min_val), Sub(max_val, min_val))
    IN copy_column_from_schema(
          [st EXCEPT !.train = MapColumn(st.train, column, F),
                     !.val = MapColumn(st.val, column, F),
                     !.test = MapColumn(st.test, column, F),
                     !.coeffs = Put(st.coeffs, column, [min |-> min_val, max |-> max_val])],
          params, column, <<column>>)

\* values + ['unknown'] with values a numpy array of strings: numpy
\* broadcasts the one-element list and adds element-wise
NumpyAdd(values, suffix) == [i \in DOMAIN values |-> values[i].s \o suffix]

\* numpy has no addition of a numeric or boolean array and a string: the
\* expression values + ['unknown'] raises for such an array
apply_one_hot_encoding(st, params, column) ==
    LET values == unique(Column(st.train, column))
        st1 == [st EXCEPT !.train = one_hot_encoding(st.train, column, values),
                          !.val = one_hot_encoding(st.val, column, values),
                          !.test = one_hot_encoding(st.test, column, values),
                          !.coeffs = Put(st.coeffs, column, [values |-> values])]
    IN IF \E i \in DOMAIN values : ~IsStr(values[i])
       THEN [st1 EXCEPT !.kind = "TypeError"]
       ELSE LET plus_unknown == NumpyAdd(values, "unknown")
            IN copy_column_from_schema(
                  st1, params, column,
                  [i \in DOMAIN plus_unknown |-> ColumnName(column, plus_unknown[i])])

\* preprocess_feature testing the categorical flag before the bounds
preprocess_feature_categorical_first(st, params, column, properties) ==
    IF "categorical" \in DOMAIN properties /\ properties["categorical"]
    THEN apply_one_hot_encoding(st, params, column)
    ELSE IF "min" \in DOMAIN properties \/ "max" \in DOMAIN properties
    THEN min_max_normalization(st, params, column, properties)
    ELSE IF properties["type"] \in {"integer", "long", "float", "double"}
    THEN mean_std_normalization(st, params, column)
    ELSE IF properties["type"] \in {"keyword"}
    THEN apply_one_hot_encoding(st, params, column)
    ELSE st

preprocess_feature(st, params, column, properties) ==
    IF "min" \in DOMAIN properties \/ "max" \in DOMAIN properties
    THEN min_max_normalization(st, params, column, properties)
    ELSE IF "categorical" \in DOMAIN properties /\ properties["categorical"]
    THEN apply_one_hot_encoding(st, params, column)
    ELSE IF properties["type"] \in {"integer", "long", "float", "double"}
    THEN mean_std_normalization(st, params, column)
    ELSE IF properties["type"] \in {"keyword"}
    THEN apply_one_hot_encoding(st, params, column)
    ELSE st

RECURSIVE FitLoop(_, _, _, _)
\* for col in schema: preprocess_feature(col, schema[col]); an exception
\* ends the loop
FitLoop(st, params, schema, k) ==
    IF k > Len(schema.keys) \/ st.kind # "ok" THEN st
    ELSE FitLoop(preprocess_feature(st, params, schema.keys[k], schema.items[schema.keys[k]]),
                 params, schema, k + 1)

EmptyDict == [c \in {} |-> 0]

preprocess_dataframes(params, train, val, test) ==
    FitLoop([kind |-> "ok", train |-> train, val |-> val, test |-> test,
             coeffs |-> EmptyDict, input_columns |-> <<>>, target_columns |-> <<>>],
            params, get_merged_schema(params), 1)

(***************************************************************************)
(* preprocess_using_coefficients                                           *)
(***************************************************************************)
UsingCoefficientsFeature(coeffs, df, column) ==
    IF column \in DOMAIN coeffs
    THEN LET c == coeffs[column]
             MinMax(x) == Div(Sub(x, c.min), Sub(c.max, c.min))
             MeanStd(x) == Div(Sub(x, c.mean), c.std)
         IN IF "min" \in DOMAIN c /\ "max" \in DOMAIN c THEN MapColumn(df, column, MinMax)
            ELSE IF "mean" \in DOMAIN c /\ "std" \in DOMAIN c THEN MapColumn(df, column, MeanStd)
            ELSE IF "values" \in DOMAIN c THEN one_hot_encoding(df, column, c.values)
            ELSE df
    ELSE df

RECURSIVE UsingCoefficientsLoop(_, _, _)
\* for col in dataframe: preprocess_feature(col), over the columns the
\* table had when the loop started
UsingCoefficientsLoop(coeffs, df, columns) ==
    IF columns = <<>> THEN df
    ELSE UsingCoefficientsLoop(coeffs, UsingCoefficientsFeature(coeffs, df, Head(columns)),
                               Tail(columns))

preprocess_using_coefficients(coeffs, df) == UsingCoefficientsLoop(coeffs, df, df.cols)


(***************************************************************************)
(* Fit-and-apply, then apply-only                                          *)
(***************************************************************************)
\* properties of a schema column
PropsSet ==
    {[type |-> "integer"],
     [type |-> "integer", min |-> Num(0)],
     [type |-> "keyword"]}

NumCells == {Num(1), Num(3)}
StrCells == {Str("x"), Str("unknown")}

BoolCells == {Bool(TRUE), Bool(FALSE)}

CellsOf(properties) ==
    IF properties["type"] = "keyword" THEN StrCells
    ELSE IF properties["type"] = "boolean" THEN BoolCells
    ELSE NumCells

\* the key orders of input_schema and target_schema
InputKeysSet == {<<"a">>, <<"b">>, <<"a", "b">>, <<"b", "a">>}
TargetKeysSet == {<<>>, <<"a">>}

\* the table's columns: every schema column, in the table's own order
TableCols(names) ==
    IF names = {"a"} THEN <<"a">> ELSE IF names = {"b"} THEN <<"b">> ELSE <<"a", "b">>

RowSet(cols, props) ==
    {r \in [Range(cols) -> NumCells \cup StrCells \cup BoolCells] :
        \A c \in Range(cols) : r[c] \in CellsOf(props[c])}

TablesOf(cols, props, n) == {DataFrame(cols, rows) : rows \in [1..n -> RowSet(cols, props)]}

InitFit ==
    /\ pc = "fit"
    /\ \E ik \in InputKeysSet, tk \in TargetKeysSet :
         \E props \in [Range(ik) \cup Range(tk) -> PropsSet] :
            /\ training_parameters =
                  [input_schema |-> Dict(ik, [c \in Range(ik) |-> props[c]]),
                   target_schema |-> Dict(tk, [c \in Range(tk) |-> props[c]])]
            /\ \E nt \in 0..MaxFitRows :
                 \E nv \in 0..(MaxFitRows - nt) :
                   \E ns \in 0..(MaxFitRows - nt - nv) :
                      LET cols == TableCols(Range(ik) \cup Range(tk))
                      IN /\ train_df \in TablesOf(cols, props, nt)
                         /\ val_df \in TablesOf(cols, props, nv)
                         /\ test_df \in TablesOf(cols, props, ns)
    /\ fitted = Idle
    /\ applied = Idle
    /\ IdleSplit /\ IdleWindow /\ IdleRound /\ IdlePost /\ IdleSignals

\* preprocess_dataframes(training_parameters, train_df, val_df, test_df)
Fit ==
    /\ pc = "fit"
    /\ fitted' = preprocess_dataframes(training_parameters, train_df, val_df, test_df)
    /\ pc' = "fitted"
    /\ UNCHANGED <<training_parameters, train_df, val_df, test_df, applied,
                   splitVars, windowVars, roundVars, postVars, signalVars>>

RawSplit(s) == IF s = 1 THEN train_df ELSE IF s = 2 THEN val_df ELSE test_df
FittedSplit(s) == IF s = 1 THEN fitted.train ELSE IF s = 2 THEN fitted.val ELSE fitted.test

\* preprocess_using_coefficients(normalization_coefficients, T) for T one of
\* the raw tables
UseCoefficients ==
    /\ pc = "fitted"
    /\ fitted.kind = "ok"
    /\ \E s \in 1..3 :
          applied' = [of |-> s,
                      table |-> preprocess_using_coefficients(fitted.coeffs, RawSplit(s))]
    /\ pc' = "applied"
    /\ UNCHANGED <<training_parameters, train_df, val_df, test_df, fitted,
                   splitVars, windowVars, roundVars, postVars, signalVars>>

NextFit == Fit \/ UseCoefficients

SpecFit == InitFit /\ [][NextFit]_vars

Schema == get_merged_schema(training_parameters)

\* a table with the columns of df and no rows
NoRows(df) == DataFrame(df.cols, <<>>)

\* C2: the coefficients returned by preprocess_dataframes depend only on the
\* schema and the training split: whatever val and test tables a run was
\* given, its coefficients mapping is the one of the run with the same
\* schema and train table and empty val and test tables, so any two runs
\* that share schema and train table return identical coefficients.
C2_CoefficientsFromTrainOnly ==
    pc = "fitted" =>
        fitted.coeffs = preprocess_dataframes(training_parameters, train_df,
                                              NoRows(train_df), NoRows(train_df)).coeffs

\* C2 witness: a fitted run with a non-empty validation table that differs
\* from the training table, and statistics taken from the training rows
C2_Witness ==
    /\ pc = "fitted"
    /\ train_df.rows # <<>>
    /\ val_df.rows # <<>>
    /\ val_df.rows # train_df.rows
    /\ \E c \in DOMAIN fitted.coeffs :
          /\ "mean" \in DOMAIN fitted.coeffs[c]
          /\ IsFinite(fitted.coeffs[c].mean)
    /\ \E c \in DOMAIN fitted.coeffs :
          /\ "values" \in DOMAIN fitted.coeffs[c]
          /\ fitted.coeffs[c].values # <<>>
          /\ ~(val_df.rows[1][c] \in Range(fitted.coeffs[c].values))

\* C3 as stated: preprocess_using_coefficients(C, T) returns the table that
\* preprocess_dataframes produced for T: same column names, same column
\* order, same values.
C3_ApplyEqualsFit ==
    (pc = "applied" /\ train_df.rows # <<>> /\ RawSplit(applied.of).rows # <<>>)
        => applied.table = FittedSplit(applied.of)

\* the group of one-hot columns of column c for the value list V
GroupNames(c, V) == [i \in 1..(Len(V) + 1) |->
                        IF i <= Len(V) THEN ColumnName(c, format(V[i])) ELSE ColumnName(c, "unknown")]

IsOneHot(c) == c \in DOMAIN fitted.coeffs /\ "values" \in DOMAIN fitted.coeffs[c]

\* C6 as stated: for a one-hot column c with V the distinct training values
\* in first-seen order, every row of every split has "c_<v>" = 1 exactly
\* when its original value is v, "c_unknown" = 1 exactly when its original
\* value is not in V, exactly one column of the group is 1, and c is dropped.
C6_OneHotShape ==
    pc = "fitted" =>
        \A c \in Range(Schema.keys) :
            IsOneHot(c) =>
                LET V == fitted.coeffs[c].values
                    names == GroupNames(c, V)
                IN /\ V = unique(Column(train_df, c))
                   /\ \A s \in 1..3 :
                        /\ ~(c \in Range(FittedSplit(s).cols))
                        /\ \A k \in DOMAIN names : names[k] \in Range(FittedSplit(s).cols)
                        /\ \A i \in DOMAIN RawSplit(s).rows :
                             LET orig == RawSplit(s).rows[i][c]
                                 row == FittedSplit(s).rows[i]
                             IN /\ \A k \in 1..Len(V) :
                                     (row[names[k]] = Num(1)) <=> (orig = V[k])
                                /\ (row[ColumnName(c, "unknown")] = Num(1))
                                      <=> ~(orig \in Range(V))
                                /\ Cardinality({n \in Range(names) : row[n] = Num(1)}) = 1
                                /\ Cardinality(Range(names)) = Len(V) + 1

\* the names under which column c appears after preprocess_dataframes
ResultNames(c) == IF IsOneHot(c) THEN Range(GroupNames(c, fitted.coeffs[c].values)) ELSE {c}

\* C7 as stated: input_columns holds the resulting names of every column of
\* the input schema and target_columns those of every column of the target
\* schema; a one-hot column contributes all its |V|+1 names.
C7_ColumnsRegistered ==
    (pc = "fitted" /\ train_df.rows # <<>>) =>
        /\ \A c \in Range(training_parameters.input_schema.keys) :
              ResultNames(c) \subseteq Range(fitted.input_columns)
        /\ \A c \in Range(training_parameters.target_schema.keys) :
              ResultNames(c) \subseteq Range(fitted.target_columns)


(***************************************************************************)
(* preprocess_dataframes on a one-column schema of every kind of column    *)
(***************************************************************************)
MaxSelectRows == 2   \* training tables of 1..MaxSelectRows rows

\* the properties of the schema column: types, bounds, categorical flag
SelectPropsSet ==
    {[type |-> "integer"],
     [type |-> "double"],
     [type |-> "integer", min |-> Num(0)],
     [type |-> "integer", max |-> Num(4)],
     [type |-> "integer", min |-> Num(0), max |-> Num(4), categorical |-> TRUE],
     [type |-> "integer", categorical |-> TRUE],
     [type |-> "integer", categorical |-> FALSE],
     [type |-> "keyword"],
     [type |-> "keyword", categorical |-> TRUE],
     [type |-> "keyword", categorical |-> FALSE],
     [type |-> "boolean"],
     [type |-> "boolean", categorical |-> TRUE],
     [type |-> "date"]}

InitSelect ==
    /\ pc = "fit"
    /\ \E properties \in SelectPropsSet :
          LET props == [c \in {"a"} |-> properties]
          IN /\ training_parameters =
                   [input_schema |-> Dict(<<"a">>, props),
                    target_schema |-> Dict(<<>>, EmptyDict)]
             /\ \E nt \in 1..MaxSelectRows, nv \in 0..1, ns \in 0..1 :
                   /\ train_df \in TablesOf(<<"a">>, props, nt)
                   /\ val_df \in TablesOf(<<"a">>, props, nv)
                   /\ test_df \in TablesOf(<<"a">>, props, ns)
    /\ fitted = Idle
    /\ applied = Idle
    /\ IdleSplit /\ IdleWindow /\ IdleRound /\ IdlePost /\ IdleSignals

SpecSelect == InitSelect /\ [][NextFit]_vars

\* the transform the priority list gives for a column's properties
SelectedTransform(properties) ==
    IF "min" \in DOMAIN properties \/ "max" \in DOMAIN properties THEN "min_max"
    ELSE IF "categorical" \in DOMAIN properties /\ properties["categorical"] THEN "one_hot"
    ELSE IF properties["type"] \in {"integer", "long", "float", "double"} THEN "mean_std"
    ELSE IF properties["type"] = "keyword" THEN "one_hot"
    ELSE "none"

\* the keys of the coefficient entry of a transform
ShapeOf(transform) ==
    IF transform = "min_max" THEN {"min", "max"}
    ELSE IF transform = "mean_std" THEN {"mean", "std"}
    ELSE {"values"}

\* C12: preprocess_dataframes applies to every schema column the one
\* transform of this priority: min-max if the properties hold a min or max
\* bound; else one-hot if flagged categorical; else zero-mean/unit-variance
\* if the type is integer, long, float or double; else one-hot if the type
\* is keyword.  The column's recorded coefficient entry has the shape of
\* that transform, a one-hot column is replaced by its group and a scaled
\* column holds the scaled training values.
C12_TransformByPriority ==
    pc = "fitted" =>
        \A c \in Range(Schema.keys) :
            LET properties == Schema.items[c]
                transform == SelectedTransform(properties)
            IN transform # "none" =>
                  /\ c \in DOMAIN fitted.coeffs
                  /\ DOMAIN fitted.coeffs[c] = ShapeOf(transform)
                  /\ (transform = "one_hot") = ~(c \in Range(fitted.train.cols))
                  /\ transform = "min_max" =>
                        \A i \in DOMAIN train_df.rows :
                           fitted.train.rows[i][c] =
                              Div(Sub(train_df.rows[i][c], fitted.coeffs[c].min),
                                  Sub(fitted.coeffs[c].max, fitted.coeffs[c].min))
                  /\ transform = "mean_std" =>
                        \A i \in DOMAIN train_df.rows :
                           fitted.train.rows[i][c] =
                              Div(Sub(train_df.rows[i][c], fitted.coeffs[c].mean),
                                  fitted.coeffs[c].std)

\* C12 witness: a numeric column with bounds and the categorical flag has
\* been min-max scaled
C12_Witness ==
    /\ pc = "fitted"
    /\ Schema.items["a"] =
          [type |-> "integer", min |-> Num(0), max |-> Num(4), categorical |-> TRUE]
    /\ fitted.kind = "ok"
    /\ DOMAIN fitted.coeffs["a"] = {"min", "max"}
    /\ Len(train_df.rows) = 2

\* C13 as stated: a schema column that matches none of the four transform
\* cases makes preprocess_dataframes report a configuration error; it is
\* never left untransformed with no coefficient entry.
C13_UnmatchedIsError ==
    pc = "fitted" =>
        \A c \in Range(Schema.keys) :
            SelectedTransform(Schema.items[c]) = "none" =>
                /\ fitted.kind # "ok"
                /\ ~(/\ ~(c \in DOMAIN fitted.coeffs)
                     /\ Column(fitted.train, c) = Column(train_df, c))

(***************************************************************************)
(* _postprocess_sample                                                     *)
(***************************************************************************)
\* get_column_indices: {c: i for i, c in enumerate(column_names)}
get_column_indices(column_names) == EnumerateIndices(column_names)

\* sample[:, k] for a sample of shape [time, signals]
SampleColumn(sample, k) == [t \in DOMAIN sample |-> sample[t][k + 1]]

\* np.argmax: the 0-based index of the first maximum
argmax(xs) ==
    (CHOOSE i \in DOMAIN xs :
        /\ \A j \in DOMAIN xs : ~Less(xs[i], xs[j])
        /\ \A j \in 1..(i - 1) : Less(xs[j], xs[i])) - 1

\* the result of postprocessing so far: the DataFrame being filled, the
\* coefficients object (one_hot_decoding changes it), the exception raised
Raise(st, error) == [st EXCEPT !.kind = error]

mean_std_denormalization(st, sample, column_indices, column, mean, std) ==
    IF ~(column \in DOMAIN column_indices) THEN Raise(st, "KeyError")
    ELSE LET data == SampleColumn(sample, column_indices[column])
         IN [st EXCEPT !.df = SetColumn(DataFrame(st.df.cols,
                                                  IF st.df.cols = <<>>
                                                  THEN [t \in DOMAIN sample |-> EmptyDict]
                                                  ELSE st.df.rows),
                                        column,
                                        [t \in DOMAIN data |-> Add(Mul(data[t], std), mean)])]

\* data is the 1-D array sample[:, k]; data[column] indexes it with the
\* column name, which numpy rejects
min_max_denormalization(st, sample, column_indices, column, min_val, max_val) ==
    IF ~(column \in DOMAIN column_indices) THEN Raise(st, "KeyError")
    ELSE Raise(st, "IndexError")

\* values += ["unknown"] extends the list stored in the coefficients
one_hot_decoding(st, sample, column_indices, column) ==
    LET values == Append(st.coeffs[column].values, Str("unknown"))
        st1 == [st EXCEPT !.coeffs = Put(st.coeffs, column,
                                         [st.coeffs[column] EXCEPT !.values = values])]
        names == [k \in DOMAIN values |-> ColumnName(column, values[k].s)]
    IN IF \E k \in DOMAIN names : ~(names[k] \in DOMAIN column_indices)
       THEN Raise(st1, "KeyError")
       ELSE LET value_indices == [k \in DOMAIN names |-> column_indices[names[k]]]
                data == [t \in DOMAIN sample |->
                            values[argmax([k \in DOMAIN value_indices |->
                                              sample[t][value_indices[k] + 1]]) + 1]]
            IN [st1 EXCEPT !.df = SetColumn(DataFrame(st.df.cols,
                                                      IF st.df.cols = <<>>
                                                      THEN [t \in DOMAIN sample |-> EmptyDict]
                                                      ELSE st.df.rows),
                                            column, data)]

\* postprocess_signal leaving out a column it cannot invert
postprocess_signal_skip_unknown(st, sample, column_indices, column) ==
    IF ~(column \in DOMAIN st.coeffs) THEN st
    ELSE LET coeffs == st.coeffs[column]
         IN IF "min" \in DOMAIN coeffs /\ "max" \in DOMAIN coeffs
            THEN min_max_denormalization(st, sample, column_indices, column,
                                         coeffs.min, coeffs.max)
            ELSE IF "mean" \in DOMAIN coeffs /\ "std" \in DOMAIN coeffs
            THEN mean_std_denormalization(st, sample, column_indices, column,
                                          coeffs.mean, coeffs.std)
            ELSE IF "values" \in DOMAIN coeffs
            THEN one_hot_decoding(st, sample, column_indices, column)
            ELSE st

postprocess_signal(st, sample, column_indices, column) ==
    IF ~(column \in DOMAIN st.coeffs) THEN Raise(st, "KeyError")
    ELSE LET coeffs == st.coeffs[column]
         IN IF "min" \in DOMAIN coeffs /\ "max" \in DOMAIN coeffs
            THEN min_max_denormalization(st, sample, column_indices, column,
                                         coeffs.min, coeffs.max)
            ELSE IF "mean" \in DOMAIN coeffs /\ "std" \in DOMAIN coeffs
            THEN mean_std_denormalization(st, sample, column_indices, column,
                                          coeffs.mean, coeffs.std)
            ELSE IF "values" \in DOMAIN coeffs
            THEN one_hot_decoding(st, sample, column_indices, column)
            ELSE Raise(st, "ValueError")

RECURSIVE PostprocessLoop(_, _, _, _)
\* for sig in signals: postprocess_signal(get_aggregated_field(sig)); an
\* exception ends the loop
PostprocessLoop(st, sample, column_indices, columns) ==
    IF columns = <<>> \/ st.kind # "DataFrame" THEN st
    ELSE PostprocessLoop(postprocess_signal(st, sample, column_indices, Head(columns)),
                         sample, column_indices, Tail(columns))

\* columns: the columns get_aggregated_field gives for the target signals
_postprocess_sample(sample, columns, normalization_coefficients, column_indices) ==
    PostprocessLoop([kind |-> "DataFrame", df |-> DataFrame(<<>>, <<>>),
                     coeffs |-> normalization_coefficients],
                    sample, column_indices, columns)

(***************************************************************************)
(* Round trip of one target column "c": preprocess_using_coefficients,     *)
(* then _postprocess_sample on the encoded table as the predicted sample   *)
(***************************************************************************)
LevelCells == {Str("x"), Str("y"), Str("unknown")}

\* the duplicate-free lists of at most MaxLevels categorical levels
LevelLists ==
    {vs \in UNION {[1..n -> LevelCells] : n \in 0..MaxLevels} :
        \A i, j \in DOMAIN vs : i # j => vs[i] # vs[j]}

CoefficientsSet ==
    {[mean |-> m, std |-> sd] : m \in {Num(0), Num(2)},
                                sd \in {Num(0), Num(1), Num(2), Sqrt(Num(2))}}
    \cup {[min |-> lo, max |-> hi] : lo \in {Num(0), Num(1)}, hi \in {Num(1), Num(4)}}
    \cup {[values |-> vs] : vs \in LevelLists}

OneColumnTables(cells) ==
    UNION {{DataFrame(<<"c">>, [i \in 1..n |-> [k \in {"c"} |-> col[i]]]) : col \in [1..n -> cells]}
            : n \in 1..MaxSampleRows}

InitRound ==
    /\ pc = "raw"
    /\ \E coeffs \in CoefficientsSet :
          /\ codec = [k \in {"c"} |-> coeffs]
          /\ raw \in OneColumnTables(IF "values" \in DOMAIN coeffs THEN LevelCells ELSE NumCells)
    /\ encoded = Idle
    /\ decoded = Idle
    /\ IdleSplit /\ IdleFit /\ IdleWindow /\ IdlePost /\ IdleSignals

\* preprocess_using_coefficients(normalization_coefficients, dataframe)
Encode ==
    /\ pc = "raw"
    /\ encoded' = preprocess_using_coefficients(codec, raw)
    /\ pc' = "encoded"
    /\ UNCHANGED <<codec, raw, decoded, splitVars, fitVars, windowVars, postVars,
                   signalVars>>

\* _postprocess_sample on the encoded table taken as the predicted sample;
\* given is the coefficients object as it was at the call
Decode ==
    /\ pc = "encoded"
    /\ LET result == _postprocess_sample(np_array(encoded), <<"c">>, codec,
                                         get_column_indices(encoded.cols))
       IN /\ decoded' = [kind |-> result.kind, df |-> result.df, given |-> codec]
          /\ codec' = result.coeffs
    /\ pc' = "decoded"
    /\ UNCHANGED <<raw, encoded, splitVars, fitVars, windowVars, postVars, signalVars>>

NextRound == Encode \/ Decode

SpecRound == InitRound /\ [][NextRound]_vars

\* C4 as stated: for a numeric column normalized with {mean, std} or
\* {min, max} (finite, std # 0, max # min), postprocessing the normalized
\* values with the same coefficients returns the original values.
C4_NumericRoundTrip ==
    (/\ pc = "decoded"
     /\ ~("values" \in DOMAIN decoded.given["c"])
     /\ \A x \in Range(Column(encoded, "c")) : IsFinite(x))
        => /\ decoded.kind = "DataFrame"
           /\ Column(decoded.df, "c") = Column(raw, "c")

\* C5 as stated: one_hot_encoding of a value v with the value list V, then
\* one_hot_decoding, yields v when v is in V and "unknown" when it is not.
C5_OneHotRoundTrip ==
    (pc = "decoded" /\ "values" \in DOMAIN decoded.given["c"]) =>
        LET V == decoded.given["c"].values
        IN /\ decoded.kind = "DataFrame"
           /\ \A i \in DOMAIN raw.rows :
                 decoded.df.rows[i]["c"] =
                    IF raw.rows[i]["c"] \in Range(V) THEN raw.rows[i]["c"] ELSE Str("unknown")


(***************************************************************************)
(* postprocess: _postprocess_sample over a batch of predicted samples      *)
(***************************************************************************)
MaxSamples == 2      \* postprocess: batches of 1..MaxSamples samples
MaxTime == 1         \* postprocess: samples of 1..MaxTime time steps
MaxCalls == 2        \* postprocess: calls on the same prediction parameters

RECURSIVE PostprocessSamples(_, _, _, _, _)
\* [_postprocess_sample(sample, ...) for sample in data]: every sample gets
\* the same coefficients object; an exception ends the comprehension and no
\* list is returned
PostprocessSamples(tables, samples, target_columns, coeffs, column_indices) ==
    IF samples = <<>> THEN [kind |-> "DataFrames", tables |-> tables, coeffs |-> coeffs]
    ELSE LET r == _postprocess_sample(Head(samples), target_columns, coeffs, column_indices)
         IN IF r.kind # "DataFrame"
            THEN [kind |-> r.kind, tables |-> <<>>, coeffs |-> r.coeffs]
            ELSE PostprocessSamples(Append(tables, r.df), Tail(samples), target_columns,
                                    r.coeffs, column_indices)

\* postprocess(prediction_parameters, data); column_names is the layout of
\* the feature axis of data that get_column_indices enumerates
postprocess(params, column_names, samples) ==
    PostprocessSamples(<<>>, samples, params.target_signals,
                       params.normalization_coefficients,
                       get_column_indices(column_names))

\* coefficient payloads: the three shapes, and two that match none of them
PayloadSet ==
    {[mean |-> Num(2), std |-> Num(2)],
     [min |-> Num(0), max |-> Num(4)],
     [values |-> <<Str("x")>>],
     [values |-> <<Str("x"), Str("y")>>],
     [min |-> Num(0)],
     [mean |-> Num(2)]}

\* the target columns get_aggregated_field gives for the target signals
TargetSignalsSet == {<<"c">>, <<"c", "d">>, <<"d", "c">>}

CoefficientMaps == UNION {[S -> PayloadSet] : S \in SUBSET {"c", "d"}}

RECURSIVE EncodedNames(_, _)
\* the columns of an encoded table: a one-hot column is replaced by one
\* column for each value and one for "unknown", any other keeps its name
EncodedNames(coeffs, target_columns) ==
    IF target_columns = <<>> THEN <<>>
    ELSE LET c == Head(target_columns)
             own == IF c \in DOMAIN coeffs /\ "values" \in DOMAIN coeffs[c]
                    THEN GroupNames(c, coeffs[c].values)
                    ELSE <<c>>
         IN own \o EncodedNames(coeffs, Tail(target_columns))

\* a sample of shape [time, signals] whose rows are 1 at feature hot (none
\* when hot = 0) and 0 elsewhere
Sample(time, width, hot) ==
    [t \in 1..time |-> [k \in 1..width |-> IF k = hot THEN Num(1) ELSE Num(0)]]

Batches(width) ==
    UNION {{[i \in 1..n |-> Sample(time, width, hot[i])] : hot \in [1..n -> 0..width]}
            : <<n, time>> \in (1..MaxSamples) \X (1..MaxTime)}

InitPost ==
    /\ pc = "predicted"
    /\ \E ts \in TargetSignalsSet, coeffs \in CoefficientMaps :
          /\ prediction_parameters =
                [target_signals |-> ts, normalization_coefficients |-> coeffs]
          /\ persisted = coeffs
          /\ \E samples \in Batches(Len(EncodedNames(coeffs, ts))) :
                predicted = [column_names |-> EncodedNames(coeffs, ts), samples |-> samples]
    /\ predictions = <<>>
    /\ calls = 0
    /\ IdleSplit /\ IdleFit /\ IdleWindow /\ IdleRound /\ IdleSignals

\* one call of postprocess; one_hot_decoding works on the coefficients
\* object of prediction_parameters itself
Postprocess ==
    /\ pc \in {"predicted", "postprocessed"}
    /\ calls < MaxCalls
    /\ LET result == postprocess(prediction_parameters, predicted.column_names,
                                 predicted.samples)
       IN /\ predictions' = [kind |-> result.kind, tables |-> result.tables]
          /\ prediction_parameters' =
                [prediction_parameters EXCEPT !.normalization_coefficients = result.coeffs]
    /\ calls' = calls + 1
    /\ pc' = "postprocessed"
    /\ UNCHANGED <<persisted, predicted, splitVars, fitVars, windowVars, roundVars,
                   signalVars>>

NextPost == Postprocess

SpecPost == InitPost /\ [][NextPost]_vars

\* the column has no coefficients entry, or one of none of the three shapes
NotInvertible(coeffs, column) ==
    \/ ~(column \in DOMAIN coeffs)
    \/ /\ ~({"min", "max"} \subseteq DOMAIN coeffs[column])
       /\ ~({"mean", "std"} \subseteq DOMAIN coeffs[column])
       /\ ~("values" \in DOMAIN coeffs[column])

\* C11: when a target column has no entry in the normalization coefficients,
\* or an entry of none of the shapes {min,max}, {mean,std}, {values},
\* postprocess fails with an error and returns no table; a returned table
\* never lacks a target column.
C11_UninvertibleIsError ==
    pc = "postprocessed" =>
        LET ts == prediction_parameters.target_signals
        IN /\ (\E k \in DOMAIN ts : NotInvertible(persisted, ts[k])) =>
                 /\ predictions.kind \in {"KeyError", "ValueError", "IndexError"}
                 /\ predictions.tables = <<>>
           /\ predictions.kind = "DataFrames" =>
                 \A i \in DOMAIN predictions.tables :
                    predictions.tables[i].cols = ts

\* C11 witness: the first target column is decoded, the second has an entry
\* of no known shape, and the call raised the unknown-signal error
C11_Witness ==
    /\ pc = "postprocessed"
    /\ prediction_parameters.target_signals = <<"d", "c">>
    /\ persisted = [k \in {"c", "d"} |->
                       IF k = "c" THEN [min |-> Num(0)] ELSE [mean |-> Num(2), std |-> Num(2)]]
    /\ predictions.kind = "ValueError"

\* C15 as stated: after postprocess has run over the samples, and after
\* repeated calls, every column's coefficient payload, the ordered values
\* list of a categorical column included, is what it was when persisted.
C15_CoefficientsUnchanged ==
    pc = "postprocessed" =>
        prediction_parameters.normalization_coefficients = persisted


(***************************************************************************)
(* prepare_signal_parameters                                               *)
(***************************************************************************)
MaxSignals == 2      \* signal lists of 0..MaxSignals signals

\* del dict[key]
Del(dict, key) == [k \in DOMAIN dict \ {key} |-> dict[k]]

\* the automatic data type with boolean entities taken as numerical
auto_data_type_boolean_numerical(entity_type) ==
    IF entity_type \in {"keyword"} THEN "categorical"
    ELSE IF entity_type \in {"boolean", "integer", "long", "float", "double"} THEN "numerical"
    ELSE "TypeError"

\* the data type given to a signal declared "auto", from its entity type
auto_data_type(entity_type) ==
    IF entity_type \in {"keyword", "boolean"} THEN "categorical"
    ELSE IF entity_type \in {"integer", "long", "float", "double"} THEN "numerical"
    ELSE "TypeError"

\* float(text) for the texts the model draws; ValueError for any other
float(text) ==
    IF text = "0" THEN [kind |-> "ok", value |-> Num(0)]
    ELSE IF text = "2" THEN [kind |-> "ok", value |-> Num(2)]
    ELSE IF text = "4" THEN [kind |-> "ok", value |-> Num(4)]
    ELSE IF text = "1.5" THEN [kind |-> "ok", value |-> Rat(3, 2)]
    ELSE [kind |-> "ValueError"]

\* if key in signal: parse it when non-empty, else delete it
ParseBound(r, key) ==
    IF r.kind # "ok" \/ ~(key \in DOMAIN r.signal) THEN r
    ELSE IF r.signal[key] # ""
    THEN LET parsed == float(r.signal[key])
         IN IF parsed.kind = "ok"
            THEN [r EXCEPT !.signal = Put(r.signal, key, parsed.value)]
            ELSE [r EXCEPT !.kind = parsed.kind]
    ELSE [r EXCEPT !.signal = Del(r.signal, key)]

\* the body of the loop for one signal: the signal as the body leaves it
\* and the exception it raised, if any
PrepareSignal(signal, entity, aggregation_requested) ==
    LET resolved == IF signal["data_type"] = "auto" THEN auto_data_type(entity["type"])
                    ELSE signal["data_type"]
    IN IF resolved = "TypeError" THEN [kind |-> "TypeError", signal |-> signal]
       ELSE LET s1 == Put(Put(Put(signal, "data_type", resolved), "type", entity["type"]),
                          "field", entity["field"])
                r == ParseBound(ParseBound([kind |-> "ok", signal |-> s1], "min"), "max")
            IN IF r.kind # "ok" THEN r
               ELSE IF ~aggregation_requested \/ r.signal["data_type"] # "numerical"
               THEN IF "aggregation" \in DOMAIN r.signal
                    THEN [r EXCEPT !.signal = Del(r.signal, "aggregation")]
                    ELSE [r EXCEPT !.kind = "KeyError"]
               ELSE r

RECURSIVE PrepareLoop(_, _, _, _)
\* for signal in signals: ...; an exception ends the loop with the signals
\* changed so far; at is the index of the signal that raised
PrepareLoop(sigs, entities, aggregation_requested, k) ==
    IF k > Len(sigs) THEN [kind |-> "ok", signals |-> sigs, at |-> 0]
    ELSE IF ~(sigs[k]["cid"] \in DOMAIN entities)
    THEN [kind |-> "KeyError", signals |-> sigs, at |-> k]
    ELSE LET r == PrepareSignal(sigs[k], entities[sigs[k]["cid"]], aggregation_requested)
             next == [sigs EXCEPT ![k] = r.signal]
         IN IF r.kind # "ok" THEN [kind |-> r.kind, signals |-> next, at |-> k]
            ELSE PrepareLoop(next, entities, aggregation_requested, k + 1)

prepare_signal_parameters(sigs, entities, aggregation_requested) ==
    PrepareLoop(sigs, entities, aggregation_requested, 1)

\* a signal of the job parameters: cid, data_type, and optionally min, max
\* and aggregation
SignalSet ==
    LET plain == {[cid |-> c, data_type |-> t] :
                     c \in {"s1", "s2"}, t \in {"auto", "numerical", "categorical"}}
        bounded == {Put(Put(sig, "min", ""), "max", "4") : sig \in plain}
        unparsable == {Put([cid |-> c, data_type |-> "auto"], "min", "x") : c \in {"s1", "s2"}}
        signal_set == plain \cup bounded \cup unparsable
    IN signal_set \cup {Put(sig, "aggregation", "avg") : sig \in signal_set}

\* the entities of the signals: their type and field
EntitiesSet ==
    {[c \in {"s1", "s2"} |->
        [type |-> IF c = "s1" THEN t1 ELSE t2, field |-> "f_" \o c]] :
        t1 \in {"keyword", "integer", "long", "date"},
        t2 \in {"boolean", "float", "double"}}

InitSignals ==
    /\ pc = "declared"
    /\ signals \in UNION {[1..n -> SignalSet] : n \in 0..MaxSignals}
    /\ declared = signals
    /\ entities_signals \in EntitiesSet
    /\ aggregated \in BOOLEAN
    /\ prepared = Idle
    /\ IdleSplit /\ IdleFit /\ IdleWindow /\ IdleRound /\ IdlePost

\* prepare_signal_parameters(signals, entities_signals, aggregated)
Prepare ==
    /\ pc = "declared"
    /\ LET result == prepare_signal_parameters(signals, entities_signals, aggregated)
       IN /\ signals' = result.signals
          /\ prepared' = [kind |-> result.kind, at |-> result.at]
    /\ pc' = "prepared"
    /\ UNCHANGED <<declared, entities_signals, aggregated, splitVars, fitVars,
                   windowVars, roundVars, postVars>>

NextSignals == Prepare

SpecSignals == InitSignals /\ [][NextSignals]_vars

\* the loop reached signal i
Reached(i) == prepared.kind = "ok" \/ i <= prepared.at

\* C14: every signal the loop reaches that is declared "auto" becomes
\* categorical when its entity type is keyword or boolean and numerical when
\* it is integer, long, float or double, and any other entity type raises
\* TypeError at that signal; a signal with an explicit data_type keeps it;
\* every processed signal has type and field of its entity.
C14_AutoDataType ==
    pc = "prepared" =>
        \A i \in DOMAIN declared :
            LET entity == entities_signals[declared[i].cid]
                auto == declared[i].data_type = "auto"
            IN IF ~Reached(i) THEN signals[i] = declared[i]
               ELSE IF auto /\ ~(entity.type \in {"keyword", "boolean", "integer",
                                                  "long", "float", "double"})
               THEN prepared.kind = "TypeError" /\ prepared.at = i
               ELSE /\ signals[i].data_type =
                         (IF ~auto THEN declared[i].data_type
                          ELSE IF entity.type \in {"keyword", "boolean"} THEN "categorical"
                          ELSE "numerical")
                    /\ signals[i].type = entity.type
                    /\ signals[i].field = entity.field

\* C14 witness: a completed call on two "auto" signals, the first of a
\* boolean entity, the second of a long entity
C14_Witness ==
    /\ pc = "prepared"
    /\ prepared.kind = "ok"
    /\ Len(declared) = 2
    /\ declared[1].cid = "s2" /\ declared[1].data_type = "auto"
    /\ entities_signals["s2"].type = "boolean"
    /\ declared[2].cid = "s1" /\ declared[2].data_type = "auto"
    /\ entities_signals["s1"].type = "long"
    /\ signals[1].data_type = "categorical"
    /\ signals[2].data_type = "numerical"

\* the signal list has supported entity types and parsable bounds
WellFormed ==
    \A i \in DOMAIN declared :
        /\ declared[i].data_type = "auto" =>
              auto_data_type(entities_signals[declared[i].cid].type) # "TypeError"
        /\ \A key \in {"min", "max"} \cap DOMAIN declared[i] :
              declared[i][key] = "" \/ float(declared[i][key]).kind = "ok"

\* C16 as stated: for every (well-formed) signal list the call completes,
\* and afterwards a signal carries an aggregation directive only if
\* aggregation was requested and its resolved data_type is numerical,
\* whether or not it carried an aggregation directive on entry.
C16_AggregationOnlyIfNumerical ==
    (pc = "prepared" /\ WellFormed) =>
        /\ prepared.kind = "ok"
        /\ \A i \in DOMAIN signals :
              "aggregation" \in DOMAIN signals[i] =>
                 aggregated /\ signals[i].data_type = "numerical"

====
